---- MODULE Spec2Model ----
(***************************************************************************)
(* Model of the obsidian-list-modified plugin (src/src/main.ts): the four  *)
(* serialized functions onCacheChange, onVaultDelete, onVaultRename and    *)
(* updateTrackedFiles, the interval tick, the tracked-file list kept in    *)
(* the settings, and the rewrite of the daily note's region.               *)
(***************************************************************************)
EXTENDS Integers, Sequences, FiniteSets, TLC

(* ------------------------------ bounds --------------------------------- *)
\* host events (changed / delete / rename / tick) observed in one behaviour
MaxEvents == 2
\* regular files of the vault (file 0 is today's daily note)
NumFiles == 2
\* calls of the update routine in the write-routine specification
MaxRuns == 2

(* --------------------------- vault and paths --------------------------- *)
NoFile == -1
DailyFile == 0
Files == 0..NumFiles
RegularFiles == 1..NumFiles

\* moment().format("YYYY-MM-DD") and the daily note it names
Today == "2024-01-02"
Yesterday == "2024-01-01"
DailyPath == "2024-01-02.md"
RegularPaths == {"a.md", "c.md", "arch/b.md", "tmp.md"}
Paths == RegularPaths \cup {DailyPath}

Basename(p) ==
  CASE p = "a.md" -> "a"
    [] p = "c.md" -> "c"
    [] p = "arch/b.md" -> "b"
    [] p = "tmp.md" -> "tmp"
    [] OTHER -> "2024-01-02"

ParentPath(p) == IF p = "arch/b.md" THEN "arch" ELSE "/"

\* settings.excludedFolders = "arch", settings.ignoredNameContains = "tmp"
ExcludedFolders == {"arch"}
IgnoredNames == {"tmp"}

(* ------------------------------ note text ------------------------------ *)
HeadingName == "Heading"
HeadingLine(h) == "# " \o h
OtherHeadingLine == "# Next"

HeadingOf(line) ==
  CASE line = "# Heading" -> "Heading"
    [] line = "# Next" -> "Next"
    [] OTHER -> ""

IsHeadingLine(line) == line \in {"# Heading", "# Next", "# "}

RECURSIVE HeadingsFrom(_, _)
HeadingsFrom(content, i) ==
  IF i > Len(content) THEN <<>>
  ELSE (IF IsHeadingLine(content[i])
        THEN <<[heading |-> HeadingOf(content[i]), line |-> i - 1]>>
        ELSE <<>>) \o HeadingsFrom(content, i + 1)

\* metadataCache.getFileCache(note)?.headings of a freshly indexed note:
\* one entry per heading line, with its 0-based line; <<>> stands for the
\* undefined `headings` of a note that has none (or of a missing cache).
ParseHeadings(content) == HeadingsFrom(content, 1)

Min(a, b) == IF a < b THEN a ELSE b
Max(a, b) == IF a > b THEN a ELSE b

\* Array.prototype.splice(start, deleteCount, ...items) on 0-based indices
Splice(content, start, deleteCount, items) ==
  LET s == Min(Max(start, 0), Len(content))
      d == Min(Max(deleteCount, 0), Len(content) - s)
  IN SubSeq(content, 1, s) \o items \o SubSeq(content, s + d + 1, Len(content))

\* content.join("\n") written to the file and split("\n") again on a read
JoinSplit(content) == IF content = <<>> THEN <<"">> ELSE content

\* Array.prototype.includes / remove (removes every occurrence) / push
Includes(arr, p) == \E i \in 1..Len(arr) : arr[i] = p
Remove(arr, p) == SelectSeq(arr, LAMBDA x : x # p)
\* unshift in the place of push
PushFront(arr, p) == <<p>> \o arr
Push(arr, p) == Append(arr, p)
Count(arr, p) == Cardinality({i \in 1..Len(arr) : arr[i] = p})

(* ------------------------------- state --------------------------------- *)
VARIABLES
  cfg,             \* settings: writeInterval, automaticallyCreateDailyNote, outputFormat, heading
  trackedFiles,    \* settings.trackedFiles
  lastTrackedDate, \* settings.lastTrackedDate
  fileExists,      \* vault: which TFile objects are in the vault
  filePath,        \* vault: TFile.path of each TFile object
  note,            \* lines of today's daily note (vault content)
  headingCache,    \* metadataCache headings of the daily note (may lag behind note)
  pendingModify,   \* vault.modify calls issued and not yet finished
  queue,           \* per serialized function: calls waiting on lastRun
  cc,              \* the running onCacheChange invocation
  del,             \* the running onVaultDelete invocation
  ren,             \* the running onVaultRename invocation
  upd,             \* the running updateTrackedFiles invocation
  dead,            \* serialized functions whose lastRun will never fulfil
  nEvents,         \* host events observed so far
  begun,           \* per serialized function: invocations whose body started
  ended,           \* per serialized function: invocations whose body completed
  log,             \* events in the order their handler bodies started
  done,            \* events whose handler has completed
  last,            \* what the handler that completed last did
  retries,         \* events for which a call made at line 172 has started, in order
  runs,            \* write-routine specification: completed calls
  note0,           \* write-routine specification: the note before any call
  note1            \* write-routine specification: the note after the first call

vars == <<cfg, trackedFiles, lastTrackedDate, fileExists, filePath, note,
          headingCache, pendingModify, queue, cc, del, ren, upd, dead,
          nEvents, begun, ended, log, done, last, retries, runs, note0, note1>>

Handlers == {"cc", "del", "ren", "upd"}
Idle == [pc |-> "idle"]
NoLast == [h |-> "none"]

(* ---------------------------- host lookups ----------------------------- *)
\* vault.getAbstractFileByPath(path): the file at that path, or NoFile (null)
getAbstractFileByPath(p) ==
  IF \E f \in Files : fileExists[f] /\ filePath[f] = p
  THEN CHOOSE f \in Files : fileExists[f] /\ filePath[f] = p
  ELSE NoFile

\* getDailyNote(moment(), getAllDailyNotes()): today's note, or NoFile (null)
getDailyNote == getAbstractFileByPath(DailyPath)

(* ------------------------------ filters -------------------------------- *)
IgnoredTags == {"#ignore"}
CacheTags == {{}, {"#ignore"}}

Prefixes(s) ==
  CASE s = "arch" -> {"", "a", "ar", "arc", "arch"}
    [] OTHER -> {"", s}
StartsWith(s, pre) == pre \in Prefixes(s)

Substrings(s) ==
  CASE s = "tmp" -> {"", "t", "m", "p", "tm", "mp", "tmp"}
    [] OTHER -> {"", s}
Contains(s, text) == text \in Substrings(s)

cacheContainsIgnoredTag(cache) == \E t \in IgnoredTags : t \in cache

\* throws (TypeError on null.parent) when no file is at the path
pathIsExcludedThrows(p) == getAbstractFileByPath(p) = NoFile
pathIsExcluded(p) ==
  \E folder \in ExcludedFolders : StartsWith(ParentPath(p), folder)

noteTitleContainsIgnoredText(title) ==
  \E text \in IgnoredNames : text # "" /\ Contains(title, text)

(* ----------------------------- formatter ------------------------------- *)
LinkFormat == "- [[link]]"
NameFormat == "- [[name]]"
FormatIncludesLink(fmt) == fmt = LinkFormat

\* throws (TypeError on null.basename) when no file is at the path
getFormattedOutputThrows(p) == getAbstractFileByPath(p) = NoFile
getFormattedOutput(fmt, p) ==
  IF FormatIncludesLink(fmt) THEN "- [[" \o Basename(p) \o "]]"
  ELSE "- " \o Basename(p)

RenderAll(fmt, tracked) == [i \in 1..Len(tracked) |-> getFormattedOutput(fmt, tracked[i])]
RenderThrows(tracked) == \E i \in 1..Len(tracked) : getFormattedOutputThrows(tracked[i])

(* --------------------------- region writer ----------------------------- *)
\* the text handed to vault.append, as the lines it adds to the note
AppendLines(h, rendered) ==
  <<HeadingLine(h)>> \o (IF rendered = <<>> THEN <<"">> ELSE rendered)

\* one iteration of the loop over the headings, for a matching heading i
SpliceRegion(headings, i, content, rendered) ==
  LET startPos == headings[i].line + 1
      endPos == IF i + 1 <= Len(headings)
                THEN headings[i + 1].line - 1
                ELSE Len(content)
  IN Splice(content, startPos, endPos - startPos, rendered)

\* the loop over the headings: the contents handed to vault.modify, in order
RECURSIVE WriteLoop(_, _, _, _, _)
WriteLoop(headings, i, content, rendered, h) ==
  IF i > Len(headings) THEN <<>>
  ELSE IF headings[i].heading = h
       THEN LET c2 == SpliceRegion(headings, i, content, rendered)
            IN <<JoinSplit(c2)>> \o WriteLoop(headings, i + 1, c2, rendered, h)
       ELSE WriteLoop(headings, i + 1, content, rendered, h)

HasMatch(headings, h) == \E i \in 1..Len(headings) : headings[i].heading = h

\* the auto-create-heading test
NeedsHeading(headings, h) == headings = <<>> \/ h = ""

\* the write gate: a configured interval and no doWrite
Gated(interval, doWrite) == interval # 0 /\ ~doWrite

(* ------------------------------- Init ---------------------------------- *)
InitPaths == <<"a.md", "arch/b.md", "tmp.md", "c.md">>

\* settings.trackedFiles as loadSettings can restore it: no duplicates, no
\* excluded path, never the daily note; "c.md" is a path whose file went
\* away while the plugin was not running
InitTracked == {<<>>, <<"a.md">>, <<"a.md", "c.md">>}

\* contents of a daily note that exists when the plugin loads
InitNotes == {<<"x">>, <<"# Heading", "old1", "old2", "# Next", "x">>}

\* content of a regular file that is renamed to the daily note's path
RenamedNote == <<"x">>
\* content of a daily note made by createDailyNote
CreatedNote == <<"">>

Configs ==
  [writeInterval : {0, 1},
   automaticallyCreateDailyNote : BOOLEAN,
   outputFormat : {LinkFormat, NameFormat},
   heading : {HeadingName}]

InitHandlers ==
  /\ queue = [h \in Handlers |-> <<>>]
  /\ cc = Idle /\ del = Idle /\ ren = Idle /\ upd = Idle
  /\ dead = {}
  /\ nEvents = 0
  /\ begun = [h \in Handlers |-> 0]
  /\ ended = [h \in Handlers |-> 0]
  /\ log = <<>>
  /\ done = {}
  /\ last = NoLast
  /\ retries = <<>>
  /\ pendingModify = <<>>

Init ==
  /\ cfg \in Configs
  /\ trackedFiles \in InitTracked
  /\ lastTrackedDate \in {Yesterday, Today}
  /\ filePath = [f \in Files |-> IF f = DailyFile THEN DailyPath ELSE InitPaths[f]]
  /\ \E daily \in BOOLEAN :
       /\ fileExists = [f \in Files |-> IF f = DailyFile THEN daily ELSE TRUE]
       /\ note \in (IF daily THEN InitNotes ELSE {<<>>})
       \* the flag is read only while no daily note exists
       /\ daily => ~cfg.automaticallyCreateDailyNote
  /\ headingCache = ParseHeadings(note)
  /\ InitHandlers
  /\ runs = 0 /\ note0 = note /\ note1 = [settled |-> FALSE, note |-> <<>>]

(* ------------------------ serialize (promise chain) -------------------- *)
Running(h) ==
  CASE h = "cc" -> cc [] h = "del" -> del [] h = "ren" -> ren [] OTHER -> upd

\* a wrapper that calls the function at once instead of chaining on lastRun
CanStartEager(h) == h \notin dead /\ queue[h] # <<>>

\* a wrapper that starts the next call once the previous promise has settled,
\* fulfilled or rejected
CanStartAfterRejection(h) == Running(h).pc = "idle" /\ queue[h] # <<>>

\* lastRun.then(() => asyncFunction(...)): the next call starts once the
\* previous promise has fulfilled
CanStart(h) == h \notin dead /\ Running(h).pc = "idle" /\ queue[h] # <<>>

\* promise reactions run before the host delivers its next event or I/O result
MicrotaskPending ==
  \/ \E h \in Handlers : CanStart(h)
  \/ cc.pc \in {"resume56", "resume85"}
  \/ del.pc = "resume"
  \/ ren.pc = "resume"

Enqueue(q, h, call) == [q EXCEPT ![h] = Append(@, call)]
Dequeue(q, h) == [q EXCEPT ![h] = Tail(@)]
UpdCall(ev, doWrite, caller) == [ev |-> ev, doWrite |-> doWrite, caller |-> caller]

Begin(h) == begun' = [begun EXCEPT ![h] = @ + 1]
\* the handler body of event ev starts; `clean` tells whether the handlers of
\* all earlier events had completed by then
Started(ev) == Append(log, [ev |-> ev, clean |-> \A i \in 1..(ev - 1) : i \in done])
Finish(h, ok, rec) ==
  /\ ended' = [ended EXCEPT ![h] = @ + 1]
  /\ dead' = IF ok THEN dead ELSE dead \cup {h}
  /\ last' = rec
  /\ done' = done \cup {rec.ev}
  /\ UNCHANGED retries
NoFinish == UNCHANGED <<ended, dead, last, done, retries>>

Unused == UNCHANGED <<runs, note0, note1>>
VaultSame == UNCHANGED <<fileExists, filePath, note, headingCache, pendingModify>>

(* ---------------------------- host events ------------------------------ *)
\* metadataCache "changed" for file f with the tags of its new cache
FileChanged(f, cache) ==
  /\ ~MicrotaskPending /\ nEvents < MaxEvents
  /\ fileExists[f]
  /\ filePath[f] = DailyPath => cache = {}
  /\ nEvents' = nEvents + 1
  /\ queue' = Enqueue(queue, "cc", [ev |-> nEvents + 1, file |-> f, cache |-> cache])
  /\ UNCHANGED <<cfg, trackedFiles, lastTrackedDate, cc, del, ren, upd, begun, log>>
  /\ NoFinish /\ VaultSame /\ Unused

\* vault "delete" for file f
FileDeleted(f) ==
  /\ ~MicrotaskPending /\ nEvents < MaxEvents
  /\ fileExists[f] /\ filePath[f] # DailyPath
  /\ nEvents' = nEvents + 1
  /\ fileExists' = [fileExists EXCEPT ![f] = FALSE]
  /\ queue' = Enqueue(queue, "del", [ev |-> nEvents + 1, file |-> f])
  /\ UNCHANGED <<cfg, trackedFiles, lastTrackedDate, cc, del, ren, upd, begun, log,
                 filePath, note, headingCache, pendingModify>>
  /\ NoFinish /\ Unused

\* vault "rename" of file f to path p: the callback gets (file, oldPath), and
\* file.path is p from now on; `newPath` keeps the p of this event
RenameEvent(f, p) ==
  /\ ~MicrotaskPending
  /\ fileExists[f] /\ filePath[f] # DailyPath
  /\ p # filePath[f] /\ getAbstractFileByPath(p) = NoFile
  /\ nEvents' = nEvents + 1
  /\ filePath' = [filePath EXCEPT ![f] = p]
  /\ IF p = DailyPath
     THEN note' = RenamedNote /\ headingCache' = ParseHeadings(RenamedNote)
     ELSE UNCHANGED <<note, headingCache>>
  /\ queue' = Enqueue(queue, "ren",
                      [ev |-> nEvents + 1, file |-> f, oldPath |-> filePath[f],
                       newPath |-> p])
  /\ UNCHANGED <<cfg, trackedFiles, lastTrackedDate, cc, del, ren, upd, begun, log,
                 fileExists, pendingModify>>
  /\ NoFinish /\ Unused

FileRenamed(f, p) == nEvents < MaxEvents /\ RenameEvent(f, p)

\* window.setInterval callback: await this.updateTrackedFiles(true)
Tick ==
  /\ ~MicrotaskPending /\ nEvents < MaxEvents
  /\ cfg.writeInterval # 0
  /\ nEvents' = nEvents + 1
  /\ queue' = Enqueue(queue, "upd", UpdCall(nEvents + 1, TRUE, "tick"))
  /\ UNCHANGED <<cfg, trackedFiles, lastTrackedDate, cc, del, ren, upd, begun, log>>
  /\ NoFinish /\ VaultSame /\ Unused

(* --------------------------- onCacheChange ----------------------------- *)
IsExcluded(p, cache) ==
  \/ cacheContainsIgnoredTag(cache)
  \/ pathIsExcluded(p)
  \/ noteTitleContainsIgnoredText(Basename(p))

LastCC(c, p, ok, tracked) ==
  [h |-> "cc", ev |-> c.ev, path |-> p, ok |-> ok, count |-> Count(tracked, p),
   excluded |-> IsExcluded(p, c.cache), daily |-> (p = DailyPath),
   rolled |-> c.rolled, before |-> c.before, rollWrote |-> c.rollWrote,
   changed |-> c.changed, wrote |-> c.wrote]

\* the array the handler's `trackedFiles` constant refers to after the body:
\* push when untracked and not excluded, then remove when excluded
FilterTracked(arr, p, cache) ==
  LET tag == cacheContainsIgnoredTag(cache)
      title == noteTitleContainsIgnoredText(Basename(p))
      add == ~Includes(arr, p) /\ ~tag /\ ~pathIsExcluded(p) /\ ~title
      arr1 == IF add THEN Push(arr, p) ELSE arr
      drop == (Includes(arr1, p) /\ tag) \/ pathIsExcluded(p) \/ title
  IN IF drop THEN Remove(arr1, p) ELSE arr1

\* pathIsExcluded is reached (and throws on a path with no file) unless the
\* conditions before it short-circuit
FilterThrows(arr, p, cache) ==
  LET tag == cacheContainsIgnoredTag(cache)
  IN /\ pathIsExcludedThrows(p)
     /\ \/ ~Includes(arr, p) /\ ~tag
        \/ ~(Includes(arr, p) /\ tag)

\* the array that the handler's constant `trackedFiles` names once
\* settings.trackedFiles has been reassigned: the old array, no longer the
\* one in the settings
AliasAfterClear(old) == old

\* lines 61-85, on the array `arr` the handler's constant refers to;
\* `settingsArr` is settings.trackedFiles when that is another array
CacheChangeBody(c, arr, detached, q) ==
  LET p == filePath[c.file]
      kept == IF detached THEN <<>> ELSE trackedFiles
      new == IF detached THEN <<>> ELSE FilterTracked(arr, p, c.cache)
      ck == [c EXCEPT !.changed = (kept # c.before)]
  IN IF c.file = getDailyNote
     THEN /\ trackedFiles' = kept
          /\ cc' = Idle /\ queue' = q
          /\ Finish("cc", TRUE, LastCC(ck, p, TRUE, kept))
     ELSE IF FilterThrows(arr, p, c.cache)
     THEN /\ trackedFiles' = kept
          /\ cc' = Idle /\ queue' = q
          /\ Finish("cc", FALSE, LastCC(ck, p, FALSE, kept))
     ELSE /\ trackedFiles' = new
          /\ cc' = [c EXCEPT !.pc = "await85", !.path = p,
                             !.changed = (new # c.before)]
          /\ queue' = Enqueue(q, "upd", UpdCall(c.ev, FALSE, "cc"))
          /\ NoFinish

\* lines 51-56, and 61-85 when the date has not changed
StartCacheChange ==
  /\ CanStart("cc")
  /\ LET call == Head(queue["cc"])
         q == Dequeue(queue, "cc")
         c == [pc |-> "start", ev |-> call.ev, file |-> call.file, cache |-> call.cache,
               path |-> filePath[call.file], rolled |-> lastTrackedDate # Today,
               before |-> trackedFiles, rollWrote |-> FALSE, ret |-> TRUE,
               changed |-> FALSE, wrote |-> FALSE]
     IN /\ Begin("cc") /\ log' = Started(call.ev)
        /\ IF lastTrackedDate # Today
           THEN /\ cc' = [c EXCEPT !.pc = "await56"]
                /\ queue' = Enqueue(q, "upd", UpdCall(call.ev, FALSE, "cc"))
                /\ UNCHANGED trackedFiles /\ NoFinish
           ELSE CacheChangeBody(c, trackedFiles, FALSE, q)
  /\ UNCHANGED <<cfg, lastTrackedDate, del, ren, upd, nEvents>>
  /\ VaultSame /\ Unused

\* lines 57-85 after the awaited rollover update
ResumeCacheChange56 ==
  /\ cc.pc = "resume56"
  /\ IF cc.ret
     THEN /\ lastTrackedDate' = Today
          /\ CacheChangeBody(cc, AliasAfterClear(trackedFiles), TRUE, queue)
     ELSE /\ cc' = Idle
          /\ Finish("cc", FALSE, LastCC(cc, cc.path, FALSE, trackedFiles))
          /\ UNCHANGED <<trackedFiles, lastTrackedDate, queue>>
  /\ UNCHANGED <<cfg, del, ren, upd, nEvents, begun, log>>
  /\ VaultSame /\ Unused

\* the handler's promise settles after the awaited update of line 85
ResumeCacheChange85 ==
  /\ cc.pc = "resume85"
  /\ cc' = Idle
  /\ Finish("cc", cc.ret, LastCC(cc, cc.path, cc.ret, trackedFiles))
  /\ UNCHANGED <<cfg, trackedFiles, lastTrackedDate, queue, del, ren, upd, nEvents,
                 begun, log>>
  /\ VaultSame /\ Unused

(* --------------------------- onVaultDelete ----------------------------- *)
\* `changed`: the handler changed settings.trackedFiles; `wrote`: the update
\* it awaited appended to or modified the note
LastOther(h, ev, ok, changed, wrote) ==
  [h |-> h, ev |-> ev, ok |-> ok, changed |-> changed, wrote |-> wrote]

StartVaultDelete ==
  /\ CanStart("del")
  /\ LET call == Head(queue["del"])
         q == Dequeue(queue, "del")
         p == filePath[call.file]
     IN /\ Begin("del") /\ log' = Started(call.ev)
        /\ IF Includes(trackedFiles, p)
           THEN /\ trackedFiles' = Remove(trackedFiles, p)
                /\ del' = [pc |-> "await", ev |-> call.ev, before |-> trackedFiles,
                           ret |-> TRUE, wrote |-> FALSE]
                /\ queue' = Enqueue(q, "upd", UpdCall(call.ev, FALSE, "del"))
                /\ NoFinish
           ELSE /\ del' = Idle /\ queue' = q
                /\ Finish("del", TRUE, LastOther("del", call.ev, TRUE, FALSE, FALSE))
                /\ UNCHANGED trackedFiles
  /\ UNCHANGED <<cfg, lastTrackedDate, cc, ren, upd, nEvents>>
  /\ VaultSame /\ Unused

ResumeVaultDelete ==
  /\ del.pc = "resume"
  /\ del' = Idle
  /\ Finish("del", del.ret, LastOther("del", del.ev, del.ret, TRUE, del.wrote))
  /\ UNCHANGED <<cfg, trackedFiles, lastTrackedDate, queue, cc, ren, upd, nEvents,
                 begun, log>>
  /\ VaultSame /\ Unused

(* --------------------------- onVaultRename ----------------------------- *)
StartVaultRename ==
  /\ CanStart("ren")
  /\ LET call == Head(queue["ren"])
         q == Dequeue(queue, "ren")
     IN /\ Begin("ren") /\ log' = Started(call.ev)
        /\ queue' = q
        /\ IF Includes(trackedFiles, call.oldPath)
           THEN /\ trackedFiles' = Push(Remove(trackedFiles, call.oldPath),
                                        filePath[call.file])
                /\ ren' = [pc |-> "save", ev |-> call.ev, before |-> trackedFiles,
                           ret |-> TRUE, wrote |-> FALSE]
                /\ NoFinish
           ELSE /\ ren' = Idle
                /\ Finish("ren", TRUE, LastOther("ren", call.ev, TRUE, FALSE, FALSE))
                /\ UNCHANGED trackedFiles
  /\ UNCHANGED <<cfg, lastTrackedDate, cc, del, upd, nEvents>>
  /\ VaultSame /\ Unused

\* saveSettings has finished: update unless the template has the link placeholder
RenameAfterSave ==
  /\ ~MicrotaskPending
  /\ ren.pc = "save"
  /\ IF ~FormatIncludesLink(cfg.outputFormat)
     THEN /\ ren' = [ren EXCEPT !.pc = "await"]
          /\ queue' = Enqueue(queue, "upd", UpdCall(ren.ev, FALSE, "ren"))
          /\ NoFinish
     ELSE /\ ren' = Idle
          /\ Finish("ren", TRUE, LastOther("ren", ren.ev, TRUE, TRUE, FALSE))
          /\ UNCHANGED queue
  /\ UNCHANGED <<cfg, trackedFiles, lastTrackedDate, cc, del, upd, nEvents, begun, log>>
  /\ VaultSame /\ Unused

ResumeVaultRename ==
  /\ ren.pc = "resume"
  /\ ren' = Idle
  /\ Finish("ren", ren.ret, LastOther("ren", ren.ev, ren.ret, TRUE, ren.wrote))
  /\ UNCHANGED <<cfg, trackedFiles, lastTrackedDate, queue, cc, del, upd, nEvents,
                 begun, log>>
  /\ VaultSame /\ Unused

(* ------------------------- updateTrackedFiles -------------------------- *)
StartUpdate ==
  /\ CanStart("upd")
  /\ LET call == Head(queue["upd"])
     IN /\ upd' = [pc |-> "save1", ev |-> call.ev, doWrite |-> call.doWrite,
                   caller |-> call.caller, headings |-> <<>>, text |-> <<>>,
                   wrote |-> FALSE]
        /\ log' = IF call.caller = "tick" THEN Started(call.ev) ELSE log
        /\ retries' = IF call.caller = "none" THEN Append(retries, call.ev)
                                               ELSE retries
  /\ queue' = Dequeue(queue, "upd")
  /\ Begin("upd")
  /\ UNCHANGED <<ended, dead, last, done>>
  /\ UNCHANGED <<cfg, trackedFiles, lastTrackedDate, cc, del, ren, nEvents>>
  /\ VaultSame /\ Unused

\* the awaiting caller continues with the outcome of the call
Deliver(caller, ok, wrote) ==
  /\ cc' = IF caller = "cc"
           THEN [cc EXCEPT !.pc = IF cc.pc = "await56" THEN "resume56" ELSE "resume85",
                           !.ret = ok,
                           !.rollWrote = IF cc.pc = "await56" THEN wrote ELSE @,
                           !.wrote = IF cc.pc = "await56" THEN @ ELSE wrote]
           ELSE cc
  /\ del' = IF caller = "del"
            THEN [del EXCEPT !.pc = "resume", !.ret = ok, !.wrote = wrote]
            ELSE del
  /\ ren' = IF caller = "ren"
            THEN [ren EXCEPT !.pc = "resume", !.ret = ok, !.wrote = wrote]
            ELSE ren

\* the invocation's promise settles: fulfilled (ok) or rejected
Complete(ok, wrote) ==
  /\ upd' = Idle
  /\ ended' = [ended EXCEPT !["upd"] = @ + 1]
  /\ dead' = IF ok THEN dead ELSE dead \cup {"upd"}
  /\ Deliver(upd.caller, ok, wrote)
  /\ done' = IF upd.caller = "tick" THEN done \cup {upd.ev} ELSE done
  /\ UNCHANGED <<last, retries>>

Suspend(u) ==
  /\ upd' = u
  /\ UNCHANGED <<cc, del, ren, ended, dead, last, done, retries>>

Recursive(q) == Enqueue(q, "upd", UpdCall(upd.ev, FALSE, "none"))

\* lines 157-179 up to the read, after the first saveSettings
UpdateAfterSave ==
  /\ ~MicrotaskPending
  /\ upd.pc = "save1"
  /\ IF getDailyNote = NoFile
     THEN IF cfg.automaticallyCreateDailyNote
          THEN Suspend([upd EXCEPT !.pc = "create"]) /\ UNCHANGED queue
          ELSE \* the call of line 172, then getFileCache(undefined) throws
               Complete(FALSE, FALSE) /\ queue' = Recursive(queue)
     ELSE /\ Suspend([upd EXCEPT !.pc = "read", !.headings = headingCache])
          /\ UNCHANGED queue
  /\ UNCHANGED <<cfg, trackedFiles, lastTrackedDate, nEvents, begun, log>>
  /\ VaultSame /\ Unused

\* createDailyNote has finished (it yields undefined when the note exists by now)
UpdateAfterCreate ==
  /\ ~MicrotaskPending
  /\ upd.pc = "create"
  /\ queue' = Recursive(queue)
  /\ IF getDailyNote # NoFile
     THEN Complete(FALSE, FALSE) /\ VaultSame
     ELSE /\ fileExists' = [fileExists EXCEPT ![DailyFile] = TRUE]
          /\ note' = CreatedNote
          /\ headingCache' = <<>>
          /\ Suspend([upd EXCEPT !.pc = "read", !.headings = <<>>])
          /\ UNCHANGED <<filePath, pendingModify>>
  /\ UNCHANGED <<cfg, trackedFiles, lastTrackedDate, nEvents, begun, log>>
  /\ Unused

\* lines 181-238 after vault.read, on the content read
UpdateAfterRead ==
  /\ ~MicrotaskPending
  /\ upd.pc = "read"
  /\ LET rendered == RenderAll(cfg.outputFormat, trackedFiles)
         writes == WriteLoop(upd.headings, 1, note, rendered, cfg.heading)
     IN IF NeedsHeading(upd.headings, cfg.heading)
        THEN IF RenderThrows(trackedFiles)
             THEN Complete(FALSE, FALSE) /\ UNCHANGED pendingModify
             ELSE /\ Suspend([upd EXCEPT !.pc = "append",
                                         !.text = AppendLines(cfg.heading, rendered)])
                  /\ UNCHANGED pendingModify
        ELSE IF Gated(cfg.writeInterval, upd.doWrite)
        THEN Complete(TRUE, FALSE) /\ UNCHANGED pendingModify
        ELSE IF HasMatch(upd.headings, cfg.heading) /\ RenderThrows(trackedFiles)
        THEN Complete(FALSE, FALSE) /\ UNCHANGED pendingModify
        ELSE /\ pendingModify' = pendingModify \o writes
             /\ Complete(TRUE, writes # <<>>)
  /\ UNCHANGED <<cfg, trackedFiles, lastTrackedDate, queue, nEvents, begun, log,
                 fileExists, filePath, note, headingCache>>
  /\ Unused

\* vault.append has finished
UpdateAfterAppend ==
  /\ ~MicrotaskPending
  /\ upd.pc = "append"
  /\ note' = note \o upd.text
  /\ Suspend([upd EXCEPT !.pc = "save2", !.wrote = TRUE])
  /\ UNCHANGED <<cfg, trackedFiles, lastTrackedDate, queue, nEvents, begun, log,
                 fileExists, filePath, headingCache, pendingModify>>
  /\ Unused

\* the second saveSettings has finished: return
UpdateAfterSave2 ==
  /\ ~MicrotaskPending
  /\ upd.pc = "save2"
  /\ Complete(TRUE, upd.wrote)
  /\ UNCHANGED <<cfg, trackedFiles, lastTrackedDate, queue, nEvents, begun, log>>
  /\ VaultSame /\ Unused

(* ------------------------------- host ---------------------------------- *)
\* a vault.modify that was not awaited finishes
ModifyLands ==
  /\ ~MicrotaskPending
  /\ pendingModify # <<>>
  /\ note' = Head(pendingModify)
  /\ pendingModify' = Tail(pendingModify)
  /\ UNCHANGED <<cfg, trackedFiles, lastTrackedDate, queue, cc, del, ren, upd, nEvents,
                 begun, log, fileExists, filePath, headingCache>>
  /\ NoFinish /\ Unused

\* the metadata cache re-indexes the daily note
RefreshCache ==
  /\ ~MicrotaskPending
  /\ getDailyNote # NoFile
  /\ headingCache # ParseHeadings(note)
  /\ headingCache' = ParseHeadings(note)
  /\ UNCHANGED <<cfg, trackedFiles, lastTrackedDate, queue, cc, del, ren, upd, nEvents,
                 begun, log, fileExists, filePath, note, pendingModify>>
  /\ NoFinish /\ Unused

Next ==
  \/ \E f \in Files, cache \in CacheTags : FileChanged(f, cache)
  \/ \E f \in Files : FileDeleted(f)
  \/ \E f \in Files, p \in Paths : FileRenamed(f, p)
  \/ Tick
  \/ StartCacheChange
  \/ ResumeCacheChange56
  \/ ResumeCacheChange85
  \/ StartVaultDelete
  \/ ResumeVaultDelete
  \/ StartVaultRename
  \/ RenameAfterSave
  \/ ResumeVaultRename
  \/ StartUpdate
  \/ UpdateAfterSave
  \/ UpdateAfterCreate
  \/ UpdateAfterRead
  \/ UpdateAfterAppend
  \/ UpdateAfterSave2
  \/ ModifyLands
  \/ RefreshCache

Spec == Init /\ [][Next]_vars

\* the steps the plugin and the host's I/O take on their own: a queued call
\* starts, an awaited operation finishes, a continuation runs
Handle ==
  \/ StartCacheChange
  \/ ResumeCacheChange56
  \/ ResumeCacheChange85
  \/ StartVaultDelete
  \/ ResumeVaultDelete
  \/ StartVaultRename
  \/ RenameAfterSave
  \/ ResumeVaultRename
  \/ StartUpdate
  \/ UpdateAfterSave
  \/ UpdateAfterCreate
  \/ UpdateAfterRead
  \/ UpdateAfterAppend
  \/ UpdateAfterSave2
  \/ ModifyLands
  \/ RefreshCache

\* the event loop runs every pending reaction and every I/O operation ends;
\* the host is not obliged to produce further events
FairSpec == Spec /\ WF_vars(Handle)

(* ------------------- the write routine on its own ---------------------- *)
\* longest daily note the write-routine specification starts from
MaxLines == 5
NoteLines == {HeadingLine(HeadingName), OtherHeadingLine, "x"}
WriteNotes == UNION {[1..n -> NoteLines] : n \in 1..MaxLines}
WritePaths == <<"c.md", "a.md", "tmp.md", "arch/b.md">>
WriteTracked ==
  {<<>>, <<"c.md">>} \cup (IF NumFiles >= 2 THEN {<<"c.md", "a.md">>} ELSE {})

Quiescent == upd.pc = "idle" /\ queue["upd"] = <<>> /\ pendingModify = <<>>
Settled == Quiescent /\ headingCache = ParseHeadings(note)

InitWrite ==
  /\ cfg \in [writeInterval : {0, 1},
              automaticallyCreateDailyNote : {FALSE},
              outputFormat : {NameFormat},
              heading : {HeadingName, ""}]
  /\ trackedFiles \in WriteTracked
  /\ lastTrackedDate = Today
  /\ filePath = [f \in Files |-> IF f = DailyFile THEN DailyPath ELSE WritePaths[f]]
  /\ fileExists = [f \in Files |-> TRUE]
  /\ note \in WriteNotes
  /\ headingCache = ParseHeadings(note)
  /\ InitHandlers
  /\ runs = 0 /\ note0 = note /\ note1 = [settled |-> FALSE, note |-> <<>>]

\* this.updateTrackedFiles(doWrite), as the tick (doWrite) or a handler calls it
CallUpdate(doWrite) ==
  /\ ~MicrotaskPending
  /\ runs < MaxRuns
  /\ doWrite => cfg.writeInterval # 0
  /\ runs' = runs + 1
  /\ note1' = [settled |-> Settled, note |-> note]
  /\ nEvents' = nEvents + 1
  /\ queue' = Enqueue(queue, "upd", UpdCall(nEvents + 1, doWrite, "tick"))
  /\ UNCHANGED <<cfg, trackedFiles, lastTrackedDate, cc, del, ren, upd, begun, log, note0>>
  /\ NoFinish /\ VaultSame

NextWrite ==
  \/ \E doWrite \in BOOLEAN : CallUpdate(doWrite)
  \/ StartUpdate
  \/ UpdateAfterSave
  \/ UpdateAfterRead
  \/ UpdateAfterAppend
  \/ UpdateAfterSave2
  \/ ModifyLands
  \/ RefreshCache

SpecWrite == InitWrite /\ [][NextWrite]_vars

(* ---------------------- renames following each other ------------------ *)
\* rename events observed in the rename specification
MaxRenames == 3

InitRename ==
  /\ cfg \in [writeInterval : {0},
              automaticallyCreateDailyNote : {FALSE},
              outputFormat : {LinkFormat, NameFormat},
              heading : {HeadingName}]
  /\ trackedFiles \in InitTracked
  /\ lastTrackedDate = Today
  /\ filePath = [f \in Files |-> IF f = DailyFile THEN DailyPath ELSE InitPaths[f]]
  /\ fileExists = [f \in Files |-> TRUE]
  /\ note \in InitNotes
  /\ headingCache = ParseHeadings(note)
  /\ InitHandlers
  /\ runs = 0 /\ note0 = note /\ note1 = [settled |-> FALSE, note |-> <<>>]

Renamed(f, p) == nEvents < MaxRenames /\ RenameEvent(f, p)

NextRename ==
  \/ \E f \in Files, p \in Paths : Renamed(f, p)
  \/ StartVaultRename
  \/ RenameAfterSave
  \/ ResumeVaultRename
  \/ StartUpdate
  \/ UpdateAfterSave
  \/ UpdateAfterRead
  \/ UpdateAfterAppend
  \/ UpdateAfterSave2
  \/ ModifyLands
  \/ RefreshCache

SpecRename == InitRename /\ [][NextRename]_vars

(* ============================== claims ================================= *)
InProgress(h) == Running(h).pc # "idle"

HandlersRunInArrivalOrder ==
  \A k \in 1..Len(log) :
    /\ log[k].clean
    /\ k > 1 => log[k - 1].ev < log[k].ev

\* the handler of the second event started while the first was suspended
SecondHandlerInterleaves ==
  /\ Len(log) = 2 /\ ~log[2].clean
  /\ dead = {}
  /\ InProgress("cc") /\ InProgress("del")

\* C3: after onCacheChange for a path that is neither excluded nor the daily
\* note completes, the path is in settings.trackedFiles exactly once (stated
\* for a change that is the only event observed, so that no other handler
\* has touched the list).
ChangedPathTrackedOnce ==
  (nEvents = 1 /\ last.h = "cc" /\ last.ok /\ ~last.excluded /\ ~last.daily)
    => last.count = 1

\* the only event was a change that rolled the date over, and its path is lost
RolloverLosesPath ==
  /\ nEvents = 1 /\ last.h = "cc" /\ last.ok /\ last.rolled
  /\ ~last.excluded /\ ~last.daily /\ last.count = 0

\* C4: after onCacheChange for an excluded path (or the daily note itself)
\* completes, the path is absent from settings.trackedFiles.
ExcludedPathAbsent ==
  (last.h = "cc" /\ last.ok /\ (last.excluded \/ last.daily)) => last.count = 0

\* a change of the daily note left the daily note tracked
DailyNoteStaysTracked ==
  last.h = "cc" /\ last.ok /\ last.daily /\ last.count = 1

\* C5: settings.trackedFiles never contains a path more than once.
NoDuplicatePaths == \A p \in Paths : Count(trackedFiles, p) <= 1

\* C6: a change handled while lastTrackedDate differs from the current date
\* and the tracked set is non-empty writes the set to the note before it
\* clears the set, for every write interval.
RolloverWritesFirst ==
  (last.h = "cc" /\ last.ok /\ last.rolled /\ last.before # <<>>) => last.rollWrote

\* with a write interval set, the rollover cleared a non-empty set unwritten
RolloverSkipsWrite ==
  /\ nEvents = 1 /\ last.h = "cc" /\ last.ok /\ last.rolled
  /\ last.before # <<>> /\ ~last.rollWrote
  /\ cfg.writeInterval # 0 /\ trackedFiles = <<>> /\ lastTrackedDate = Today

\* C7: the daily note's path is never an element of settings.trackedFiles.
DailyNoteNeverTracked == ~Includes(trackedFiles, DailyPath)

(* ----------------------- claims on the write routine -------------------- *)
FirstMatch(headings, h) ==
  CHOOSE i \in 1..Len(headings) :
    /\ headings[i].heading = h
    /\ \A j \in 1..(i - 1) : headings[j].heading # h

\* lines[0..h] ++ rendered ++ lines[n..] for the configured heading at line h
\* and the next heading at line n (n = the note's length when there is none)
ExpectedReplace(content, rendered, h) ==
  LET hs == ParseHeadings(content)
      i == FirstMatch(hs, h)
      n == IF i + 1 <= Len(hs) THEN hs[i + 1].line ELSE Len(content)
  IN SubSeq(content, 1, hs[i].line + 1) \o rendered
       \o SubSeq(content, n + 1, Len(content))

OneWriteDone == runs = 1 /\ ended["upd"] = 1 /\ Quiescent /\ cfg.writeInterval = 0

\* C8: a write to a note that contains the configured heading replaces exactly
\* the lines between that heading and the next heading (or the end of the
\* note) with the rendered list.
RegionReplaced ==
  (OneWriteDone /\ cfg.heading # "" /\ HasMatch(ParseHeadings(note0), cfg.heading))
    => note = ExpectedReplace(note0, RenderAll(cfg.outputFormat, trackedFiles),
                              cfg.heading)

\* the note of the specification's example keeps the last line of the old region
ExampleKeepsOldLine ==
  /\ OneWriteDone /\ trackedFiles = <<"c.md">>
  /\ note0 = <<"# Heading", "x", "x", "# Next", "x">>
  /\ note = <<"# Heading", "- c", "x", "# Next", "x">>

TwoWritesDone ==
  runs = 2 /\ ended["upd"] = 2 /\ Quiescent /\ cfg.writeInterval = 0 /\ note1.settled

\* C9: a second write, made when the first has finished and with the same
\* tracked set, leaves the note as the first write left it.
WriteIdempotent == TwoWritesDone => note = note1.note

\* an empty region receives the rendered list once more with each write
EmptyRegionGrows ==
  /\ TwoWritesDone /\ trackedFiles = <<"c.md">> /\ cfg.heading = HeadingName
  /\ note0 = <<"# Heading", "# Next">>
  /\ note1.note = <<"# Heading", "- c", "# Next">>
  /\ note = <<"# Heading", "- c", "- c", "# Next">>

\* C10: whatever writes were made, the lines of the note up to and including
\* the configured heading, and the lines from the next heading on, are the
\* original ones in their original order.
OutsideRegionPreserved ==
  (cfg.heading # "" /\ HasMatch(ParseHeadings(note0), cfg.heading)) =>
    LET hs == ParseHeadings(note0)
        i == FirstMatch(hs, cfg.heading)
        before == hs[i].line + 1
        after == IF i + 1 <= Len(hs) THEN Len(note0) - hs[i + 1].line ELSE 0
    IN /\ Len(note) >= before + after
       /\ SubSeq(note, 1, before) = SubSeq(note0, 1, before)
       /\ SubSeq(note, Len(note) - after + 1, Len(note))
            = SubSeq(note0, Len(note0) - after + 1, Len(note0))

\* a write made with the heading cache of the note as it was before an
\* earlier write removes the next heading of a note with a single heading
StaleCacheRemovesNextHeading ==
  /\ note0 = <<"# Heading", "x", "x", "x", "# Next">>
  /\ trackedFiles = <<>> /\ cfg.heading = HeadingName
  /\ Quiescent /\ runs = 2
  /\ note = <<"# Heading">>

\* C11: a write to a note that contains no heading with the configured name
\* (no heading at all, or only other headings) keeps the existing lines and
\* adds after them a section made of the heading line followed by one
\* rendered line per tracked path.
SectionAppended ==
  (OneWriteDone /\ cfg.heading = HeadingName
     /\ ~HasMatch(ParseHeadings(note0), cfg.heading))
    => LET rendered == RenderAll(cfg.outputFormat, trackedFiles)
       IN /\ Len(note) > Len(note0)
          /\ SubSeq(note, 1, Len(note0)) = note0
          /\ \E k \in (Len(note0) + 1)..Len(note) :
               /\ note[k] = HeadingLine(cfg.heading)
               /\ SubSeq(note, k + 1, k + Len(rendered)) = rendered

\* a note that has only another heading is left as it was
OtherHeadingNothingWritten ==
  /\ OneWriteDone /\ cfg.heading = HeadingName /\ trackedFiles = <<"c.md">>
  /\ note0 = <<"# Next", "x">>
  /\ note = note0

(* ------------------------ claims on the handlers ----------------------- *)
\* C12: with a write interval of 0, a handler that changed the tracked set
\* has, when it completes, had the note written by the update it awaited,
\* whatever the output template (stated for a handler whose event is the
\* only one observed).
ZeroIntervalWrites ==
  (cfg.writeInterval = 0 /\ nEvents = 1 /\ last.h \in {"cc", "del", "ren"}
     /\ last.ok /\ last.changed)
    => last.wrote

\* a rename of a tracked path under a template with the link placeholder
\* completed without a write
LinkRenameNotWritten ==
  /\ cfg.writeInterval = 0 /\ cfg.outputFormat = LinkFormat
  /\ nEvents = 1 /\ last.h = "ren" /\ last.ok /\ last.changed /\ ~last.wrote
  /\ getDailyNote # NoFile /\ trackedFiles = <<"c.md">>

\* the update routine, having read the note, goes on to render the tracked paths
RendersList ==
  /\ upd.pc = "read"
  /\ \/ NeedsHeading(upd.headings, cfg.heading)
     \/ /\ ~Gated(cfg.writeInterval, upd.doWrite)
        /\ HasMatch(upd.headings, cfg.heading)

\* C13: when the update routine renders the list while a tracked path has no
\* file, the write is not aborted: the invocation is not rejected, and it
\* goes on to append to or modify the note.
MissingFileSkipped ==
  [][(RendersList /\ RenderThrows(trackedFiles) /\ upd' # upd)
       => /\ "upd" \notin dead'
          /\ (upd'.pc = "append" \/ pendingModify' # pendingModify)]_vars

\* a change of a.md while the list holds a path without a file: the update
\* was rejected and the note is untouched
MissingFileAbortsWrite ==
  /\ nEvents = 1 /\ last.h = "cc" /\ ~last.ok
  /\ trackedFiles = <<"a.md", "c.md">> /\ getAbstractFileByPath("c.md") = NoFile
  /\ getDailyNote # NoFile /\ "upd" \in dead
  /\ note = note0 /\ pendingModify = <<>>

\* C14: when the update routine finds no daily note and auto-create is off,
\* it returns: the invocation ends without an error, and the tracked set,
\* the last tracked date and the note are as before.
NoNoteReturnsCleanly ==
  [][(upd.pc = "save1" /\ getDailyNote = NoFile
        /\ ~cfg.automaticallyCreateDailyNote /\ upd' # upd)
       => /\ upd'.pc = "idle" /\ "upd" \notin dead'
          /\ trackedFiles' = trackedFiles /\ lastTrackedDate' = lastTrackedDate
          /\ note' = note /\ pendingModify' = pendingModify]_vars

\* a delete of a tracked file while there is no daily note: the update it
\* awaited was rejected
NoNoteRejects ==
  /\ nEvents = 1 /\ last.h = "del" /\ ~last.ok
  /\ getDailyNote = NoFile /\ ~cfg.automaticallyCreateDailyNote
  /\ "upd" \in dead

RolloverOnEveryEvent ==
  (last.h \in {"cc", "del", "ren"} /\ last.ok) => lastTrackedDate = Today

\* a delete of a tracked file on a new day: the handler completes with the
\* earlier date kept and the other paths of that day still tracked
DeleteSkipsRollover ==
  /\ nEvents = 1 /\ last.h = "del" /\ last.ok /\ last.changed
  /\ lastTrackedDate = Yesterday /\ trackedFiles = <<"c.md">>

\* C18: with a write interval set and a heading name configured, an update
\* made by a change, delete or rename handler (without doWrite) that reads a
\* note containing a heading neither appends to the note nor modifies it.
EventUpdateGated ==
  [][(upd.pc = "read" /\ ~upd.doWrite /\ upd.caller \in {"cc", "del", "ren"}
        /\ cfg.writeInterval # 0 /\ cfg.heading # ""
        /\ ParseHeadings(note) # <<>> /\ upd' # upd)
       => (upd'.pc # "append" /\ pendingModify' = pendingModify)]_vars

\* an update made for an event goes on to append a second section to a note
\* that already has the heading, the metadata cache not having indexed it yet
EventUpdateAppendsAgain ==
  /\ upd.pc = "append" /\ ~upd.doWrite /\ upd.caller = "cc"
  /\ cfg.writeInterval # 0
  /\ HasMatch(ParseHeadings(note), cfg.heading) /\ headingCache = <<>>

(* ------------------------- claims on the rename ------------------------ *)
RenameStarts == CanStart("ren") /\ begun'["ren"] # begun["ren"]

\* the list after the handler body for a rename of `old` into `new`: `old`
\* removed when it is another path than `new`, `new` last, the other paths as
\* they were; or, when `old` was not tracked, nothing changed, nothing saved
\* and no update called
RenameFrame(old, new) ==
  LET Others(arr) == SelectSeq(arr, LAMBDA x : x \notin {old, new})
  IN IF Includes(trackedFiles, old)
     THEN /\ old # new => ~Includes(trackedFiles', old)
          /\ trackedFiles' # <<>>
          /\ trackedFiles'[Len(trackedFiles')] = new
          /\ Others(trackedFiles') = Others(trackedFiles)
     ELSE /\ trackedFiles' = trackedFiles
          /\ ren'.pc = "idle" /\ queue'["upd"] = queue["upd"]

\* C19 (as stated): the handler of a rename from oldPath to newPath leaves
\* oldPath absent, newPath last and the other paths unchanged, or changes
\* and writes nothing when oldPath was not tracked.
RenameAppendsEventPath ==
  [][RenameStarts
       => RenameFrame(Head(queue["ren"]).oldPath, Head(queue["ren"]).newPath)]_vars

\* C19 (amended): the same frame holds with the path the file has when the
\* handler body runs in the place of newPath.
RenameAppendsCurrentPath ==
  [][RenameStarts
       => RenameFrame(Head(queue["ren"]).oldPath,
                      filePath[Head(queue["ren"]).file])]_vars

\* a tracked file was renamed twice while an earlier rename was being
\* handled: the handler of its first rename appended the later path
RenameAppendedLaterPath ==
  /\ nEvents = 3 /\ begun["ren"] = 2 /\ queue["ren"] # <<>>
  /\ Head(queue["ren"]).oldPath = "c.md" /\ Head(queue["ren"]).newPath = "tmp.md"
  /\ Includes(trackedFiles, "tmp.md") /\ ~Includes(trackedFiles, "c.md")
  /\ ~Includes(trackedFiles, "a.md")

(* ------------------------ claims on the note write --------------------- *)
\* C20: a modification of the note issued by the update routine has finished
\* before any later invocation reads the note: at most one vault.modify is
\* in flight, and none is in flight while an invocation is past its start
\* (taking the headings, reading the content).
WriteFinishedBeforeRelease ==
  /\ Len(pendingModify) <= 1
  /\ upd.pc \in {"read", "append", "save2"} => pendingModify = <<>>

\* the second invocation has taken the headings and is reading the note while
\* the first invocation's modify has not finished
ReadsDuringPendingWrite ==
  /\ begun["upd"] = 2 /\ ended["upd"] = 1 /\ upd.pc = "read"
  /\ Len(pendingModify) = 1

====
